---- MODULE Spec2Model ----
(***************************************************************************)
(* A model of ldirectory.py: the two ldap3 formatters                      *)
(* (format_userAccountControl, format_dnsrecord) and the class             *)
(* ActiveDirectoryView (constructor, query, resolve_sid, resolve_guid,     *)
(* unlock).                                                                *)
(*                                                                         *)
(* Python values are tagged records [t |-> type, v |-> value]; the result  *)
(* of a call is a record [kind, exc, val]: kind "return" with the value,   *)
(* or kind "raise" with the name of the exception class.                   *)
(***************************************************************************)
EXTENDS Integers, Sequences, FiniteSets, TLC

VARIABLES
    obj,          \* the ActiveDirectoryView object: "unbuilt", "bound", "failed"
    base_dn,      \* self.base_dn
    search_scope, \* self.search_scope
    pc,           \* "idle"; "searching" while query iterates entry_generator;
                  \* "done" once the call has ended and its caller holds the result
    caller,       \* the public method in progress or last completed: [op, arg]
    directory,    \* what the server answers to the search of this call
    request,      \* the arguments of the last paged_search issued
    response,     \* the page held by the paged-search generator, not yet yielded
    cookie,       \* TRUE while the server has announced a further page
    pos,          \* the number of entries the generator has yielded
    result_set,   \* the local result_set of query
    searches,     \* the number of paged searches issued by the call in progress
    unlocked,     \* the dns ad_unlock_account was invoked against by this call
    outcome,      \* how the last call ended
    raw,          \* the raw_value handed to a formatter
    decoded       \* what the formatter gave back

sessionVars == <<obj, base_dn, search_scope, pc, caller, directory, request,
                 response, cookie, pos, result_set, searches, unlocked, outcome>>
formatterVars == <<raw, decoded>>
vars == <<sessionVars, formatterVars>>

----------------------------------------------------------------------------
(* Bounds of the model *)

\* entries per page; stands for PAGE_SIZE = 1000 of line 14, scaled down
PAGE_SIZE == 2
\* the longest answer the server gives to one search
MaxEntries == 4

----------------------------------------------------------------------------
(* Python values and results *)

PyNone == [t |-> "none", v |-> <<>>]
PyBool(b) == [t |-> "bool", v |-> b]
PyStr(s) == [t |-> "str", v |-> s]
PyList(l) == [t |-> "list", v |-> l]

Returned(v) == [kind |-> "return", exc |-> "", val |-> v]
Raised(e) == [kind |-> "raise", exc |-> e, val |-> PyNone]
NoOutcome == [kind |-> "none", exc |-> "", val |-> PyNone]

Unset == "<unset>"

\* The names bound in the module's global namespace: the imports of lines
\* 2-11 and 49 and the definitions of lines 14, 15, 19, 34 and 54.
ModuleGlobals ==
    {"unpack", "inet_ntoa",
     "ALL_ATTRIBUTES", "ALL_OPERATIONAL_ATTRIBUTES", "Server", "Connection",
     "SASL", "KERBEROS", "NTLM", "SUBTREE", "ALL",
     "format_sid", "format_uuid", "format_ad_timestamp",
     "validate_sid", "validate_guid",
     "LDAPNoSuchObjectResult", "LDAPOperationResult",
     "ad_unlock_account",
     "DNS_TYPES", "USER_ACCOUNT_CONTROL", "WELL_KNOWN_SIDs",
     "PAGE_SIZE", "format_userAccountControl", "format_dnsrecord",
     "ldap3", "ActiveDirectoryView"}

\* The attributes of the class ActiveDirectoryView, reached through self.
ClassAttributes ==
    {"ActiveDirectoryLdapException", "ActiveDirectoryLdapInvalidSID",
     "ActiveDirectoryLdapInvalidGUID",
     "__init__", "query", "resolve_sid", "resolve_guid", "unlock"}

\* The exception a statement `raise name(...)` ends with: a name that is
\* not a global of the module (a class attribute is not one) is a NameError.
RaiseGlobal(name) == IF name \in ModuleGlobals THEN name ELSE "NameError"

\* The exception a statement `raise self.name(...)` ends with.
RaiseSelf(name) == IF name \in ClassAttributes THEN name ELSE "AttributeError"

----------------------------------------------------------------------------
(* The directory *)

\* The result envelopes a paged search yields: two entries (the attributes
\* of the second already hold a key "dn") and a search reference, which has
\* no dn.
EntryA == [dn |-> "cn=a", attributes |-> [cn |-> "a"]]
EntryB == [dn |-> "cn=b", attributes |-> [cn |-> "b", dn |-> "stale"]]
Referral == [uri |-> "ldap://other"]
Entries == {EntryA, EntryB, Referral}

RECURSIVE SeqsUpTo(_, _)
SeqsUpTo(S, n) ==
    IF n = 0 THEN {<<>>}
    ELSE LET shorter == SeqsUpTo(S, n - 1)
         IN  shorter \cup {Append(s, e) : s \in {t \in shorter : Len(t) = n - 1}, e \in S}

\* What the server answers to one search: the entries in the order it sends
\* them and, when fails, the number of entries (failAt) after which the search
\* ends with an LDAPOperationResult instead of going on.
Scripts ==
    {[entries |-> es, fails |-> FALSE, failAt |-> 0, unlock |-> PyNone] :
        es \in SeqsUpTo(Entries, MaxEntries)}
    \cup
    UNION {{[entries |-> es, fails |-> TRUE, failAt |-> f, unlock |-> PyNone] :
                f \in 0 .. Len(es)} : es \in SeqsUpTo(Entries, MaxEntries)}

NoScript == [entries |-> <<>>, fails |-> FALSE, failAt |-> 0, unlock |-> PyNone]

\* What ad_unlock_account gives back: True, or a diagnostic string (line
\* 194); False is the third value the bool | string interface admits.
UnlockResults == {PyBool(TRUE), PyBool(FALSE), PyStr("insufficientAccessRights")}

Min(a, b) == IF a < b THEN a ELSE b

----------------------------------------------------------------------------
(* ldap_utils and the ldap3 validators *)

\* ldap_utils.WELL_KNOWN_SIDs: two of its entries.
WELL_KNOWN_SIDs == [s \in {"S-1-1-0", "S-1-5-18"} |->
                      IF s = "S-1-1-0" THEN "Everyone" ELSE "Local System"]

\* The sids and guids the operations are called with, and those among them
\* the ldap3 validators accept.
Sids == {"S-1-1-0", "S-1-5-18", "S-1-5-21-7-500", "not-a-sid"}
Guids == {"6f1c2a3e-0000-4000-8000-00000000002a", "not-a-guid"}
validate_sid(sid) == sid \in {"S-1-1-0", "S-1-5-18", "S-1-5-21-7-500"}
validate_guid(guid) == guid \in {"6f1c2a3e-0000-4000-8000-00000000002a"}

Usernames == {"alice"}
Filters == {"(objectClass=user)"}
Methods == {"Kerberos", "NTLM", "Digest"}
Bases == {"", "ou=staff,dc=corp,dc=local"}
Fqdn == <<"corp", "local">>

----------------------------------------------------------------------------
(* ActiveDirectoryView.__init__ *)

\* ','.join(["dc={}".format(d) for d in fqdn.split(".")]), fqdn given as the
\* sequence of its labels.
RECURSIVE DcJoin(_)
DcJoin(labels) ==
    IF labels = <<>> THEN ""
    ELSE IF Len(labels) = 1 THEN "dc=" \o labels[1]
    ELSE ("dc=" \o labels[1] \o ",") \o DcJoin(Tail(labels))

\* How the constructor ends. A method other than Kerberos and NTLM leaves
\* self.ldap unassigned, and line 104 reads it. On a failed bind line 105
\* raises the bare name ActiveDirectoryLdapException.
init_outcome(method, bindOk) ==
    IF method \notin {"Kerberos", "NTLM"} THEN Raised("AttributeError")
    ELSE IF ~bindOk THEN Raised(RaiseGlobal("ActiveDirectoryLdapException"))
    ELSE Returned(PyNone)

Construct(method, base, bindOk) ==
    /\ obj = "unbuilt"
    /\ caller' = [op |-> "__init__", arg |-> method]
    /\ outcome' = init_outcome(method, bindOk)
    /\ IF outcome'.kind = "return"
         THEN /\ obj' = "bound"
              /\ base_dn' = (IF base # "" THEN base ELSE DcJoin(Fqdn))
              /\ search_scope' = "SUBTREE"
         ELSE /\ obj' = "failed"
              /\ UNCHANGED <<base_dn, search_scope>>
    /\ UNCHANGED <<pc, directory, request, response, cookie, pos, result_set,
                   searches, unlocked, formatterVars>>

----------------------------------------------------------------------------
(* ActiveDirectoryView.query *)

\* Lines 121-130: result_set = [] and the call of paged_search, which gives
\* back a generator; nothing is fetched before the loop asks for an entry.
StartSearch(ldapfilter, script) ==
    /\ directory' = script
    /\ request' = [search_base |-> base_dn, search_filter |-> ldapfilter,
                   search_scope |-> search_scope, paged_size |-> PAGE_SIZE]
    /\ searches' = 1
    /\ result_set' = <<>>
    /\ response' = <<>>
    /\ cookie' = TRUE
    /\ pos' = 0
    /\ unlocked' = <<>>
    /\ outcome' = NoOutcome
    /\ pc' = "searching"

\* A call that ends without a search.
EndCall(result, script) ==
    /\ directory' = script
    /\ searches' = 0
    /\ result_set' = <<>>
    /\ response' = <<>>
    /\ cookie' = FALSE
    /\ pos' = 0
    /\ unlocked' = <<>>
    /\ outcome' = result
    /\ pc' = "done"
    /\ UNCHANGED request

Ready == obj = "bound" /\ pc = "idle"

\* The generator is asked for an entry it does not hold: the next page of
\* at most PAGE_SIZE entries is fetched, and the server says (the cookie)
\* whether more follow.
FetchPage ==
    /\ pc = "searching" /\ response = <<>> /\ cookie
    /\ ~(directory.fails /\ directory.failAt = pos)
    /\ LET upto == Min(pos + PAGE_SIZE, Len(directory.entries))
       IN  /\ response' = SubSeq(directory.entries, pos + 1, upto)
           /\ cookie' = (upto < Len(directory.entries))
    /\ UNCHANGED <<obj, base_dn, search_scope, pc, caller, directory, request, pos,
                   result_set, searches, unlocked, outcome, formatterVars>>

\* d = entry["attributes"]; d["dn"] = entry["dn"]
Assemble(entry) ==
    [k \in DOMAIN entry.attributes \cup {"dn"} |->
        IF k = "dn" THEN entry.dn ELSE entry.attributes[k]]

\* query_loop_body with line 135 left out: a "dn" among the attributes stays.
query_loop_body_without_line_135(rs, entry) ==
    IF "dn" \in DOMAIN entry
    THEN Append(rs, [k \in DOMAIN entry.attributes \cup {"dn"} |->
                        IF k \in DOMAIN entry.attributes THEN entry.attributes[k]
                        ELSE entry.dn])
    ELSE rs

\* Lines 133-136: the body of the loop.
query_loop_body(rs, entry) ==
    IF "dn" \in DOMAIN entry THEN Append(rs, Assemble(entry)) ELSE rs

NextEntry ==
    /\ pc = "searching" /\ response # <<>>
    /\ ~(directory.fails /\ directory.failAt = pos)
    /\ result_set' = query_loop_body(result_set, Head(response))
    /\ response' = Tail(response)
    /\ pos' = pos + 1
    /\ UNCHANGED <<obj, base_dn, search_scope, pc, caller, directory, request, cookie,
                   searches, unlocked, outcome, formatterVars>>

\* query_on_error with the handler returning what was gathered.
query_on_error_returns_partial(rs) == Returned(PyList(rs))

\* Lines 138-139: an LDAPOperationResult raised by the generator.
query_on_error(rs) == Raised(RaiseSelf("ActiveDirectoryLdapException"))

\* None of resolve_sid, resolve_guid and unlock has a handler: what query
\* raises is what the call raises.
SearchFails ==
    /\ pc = "searching"
    /\ directory.fails /\ directory.failAt = pos
    /\ outcome' = query_on_error(result_set)
    /\ pc' = "done"
    /\ UNCHANGED <<obj, base_dn, search_scope, caller, directory, request, response,
                   cookie, pos, result_set, searches, unlocked, formatterVars>>

Query(ldapfilter, script) ==
    /\ Ready
    /\ caller' = [op |-> "query", arg |-> ldapfilter]
    /\ StartSearch(ldapfilter, script)
    /\ UNCHANGED <<obj, base_dn, search_scope, formatterVars>>

----------------------------------------------------------------------------
(* resolve_sid, resolve_guid, unlock *)

\* resolve_sid_route with the validation ahead of the table.
resolve_sid_route_validates_first(sid) ==
    IF validate_sid(sid) THEN "query"
    ELSE IF sid \in DOMAIN WELL_KNOWN_SIDs THEN "table"
    ELSE "invalid"

\* resolve_sid_route without the validation.
resolve_sid_route_without_validation(sid) ==
    IF sid \in DOMAIN WELL_KNOWN_SIDs THEN "table" ELSE "query"

\* Lines 154-160: which way resolve_sid goes before any query.
resolve_sid_route(sid) ==
    IF sid \in DOMAIN WELL_KNOWN_SIDs THEN "table"
    ELSE IF validate_sid(sid) THEN "query"
    ELSE "invalid"

\* Lines 158-160: what resolve_sid does with the result of its query.
resolve_sid_result(results) ==
    IF results # <<>> THEN Returned(PyList(results))
    ELSE Raised(RaiseSelf("ActiveDirectoryLdapInvalidSID"))

ResolveSid(sid, script) ==
    /\ Ready
    /\ caller' = [op |-> "resolve_sid", arg |-> sid]
    /\ LET route == resolve_sid_route(sid)
       IN  IF route = "table" THEN EndCall(Returned(PyStr(WELL_KNOWN_SIDs[sid])), script)
           ELSE IF route = "query"
                THEN StartSearch("(&(ObjectSid=" \o sid \o "))", script)
                ELSE EndCall(Raised(RaiseSelf("ActiveDirectoryLdapInvalidSID")), script)
    /\ UNCHANGED <<obj, base_dn, search_scope, formatterVars>>

\* Line 171: which way resolve_guid goes before any query.
resolve_guid_route(guid) == IF validate_guid(guid) THEN "query" ELSE "invalid"

\* resolve_guid_result giving the first record only.
resolve_guid_result_first_only(results) ==
    IF results # <<>> THEN Returned(PyList(<<results[1]>>))
    ELSE Raised(RaiseSelf("ActiveDirectoryLdapInvalidGUID"))

\* Lines 174-176: what resolve_guid does with the result of its query.
resolve_guid_result(results) ==
    IF results # <<>> THEN Returned(PyList(results))
    ELSE Raised(RaiseSelf("ActiveDirectoryLdapInvalidGUID"))

ResolveGuid(guid, script) ==
    /\ Ready
    /\ caller' = [op |-> "resolve_guid", arg |-> guid]
    /\ IF resolve_guid_route(guid) = "query"
         THEN StartSearch("(&(ObjectGUID=" \o guid \o "))", script)
         ELSE EndCall(Raised(RaiseSelf("ActiveDirectoryLdapInvalidGUID")), script)
    /\ UNCHANGED <<obj, base_dn, search_scope, formatterVars>>

\* Line 187: the argument of self.query is evaluated before the call, and
\* it reads the global USER_DN_FILTER.
unlock_route == IF "USER_DN_FILTER" \in ModuleGlobals THEN "query" ELSE "NameError"

\* Lines 195-198: isinstance(unlock, bool) decides, not the value.
unlock_normalize(u) == IF u.t = "bool" THEN PyBool(TRUE) ELSE PyBool(FALSE)

\* Lines 188-198: what unlock does with the result of its query; u is what
\* ad_unlock_account answers. ext lists the dns it is invoked against.
unlock_result(results, u) ==
    IF Len(results) # 1
    THEN [outcome |-> Raised(RaiseGlobal("ActiveDirectoryLdapException")), ext |-> <<>>]
    ELSE IF "info" \notin ModuleGlobals
    THEN [outcome |-> Raised("NameError"), ext |-> <<>>]
    ELSE [outcome |-> Returned(unlock_normalize(u)), ext |-> <<results[1].dn>>]

Unlock(username, script, u) ==
    /\ Ready
    /\ caller' = [op |-> "unlock", arg |-> username]
    /\ IF unlock_route = "query"
         THEN StartSearch("USER_DN_FILTER.format(" \o username \o ")",
                          [script EXCEPT !.unlock = u])
         ELSE EndCall(Raised(unlock_route), [script EXCEPT !.unlock = u])
    /\ UNCHANGED <<obj, base_dn, search_scope, formatterVars>>

\* Line 141 and what the caller of query does next.
after_query(op, results, u) ==
    IF op = "resolve_sid" THEN [outcome |-> resolve_sid_result(results), ext |-> <<>>]
    ELSE IF op = "resolve_guid" THEN [outcome |-> resolve_guid_result(results), ext |-> <<>>]
    ELSE IF op = "unlock" THEN unlock_result(results, u)
    ELSE [outcome |-> Returned(PyList(results)), ext |-> <<>>]

\* The generator is exhausted: the loop ends and query returns result_set.
QueryReturn ==
    /\ pc = "searching" /\ response = <<>> /\ ~cookie
    /\ ~(directory.fails /\ directory.failAt = pos)
    /\ LET r == after_query(caller.op, result_set, directory.unlock)
       IN  /\ outcome' = r.outcome
           /\ unlocked' = r.ext
    /\ pc' = "done"
    /\ UNCHANGED <<obj, base_dn, search_scope, caller, directory, request, response,
                   cookie, pos, result_set, searches, formatterVars>>

\* The caller takes the result of the call; the locals of the call are gone
\* and the object is ready for the next one.
Collect ==
    /\ pc = "done"
    /\ pc' = "idle"
    /\ caller' = [op |-> "none", arg |-> ""]
    /\ directory' = NoScript
    /\ response' = <<>>
    /\ cookie' = FALSE
    /\ pos' = 0
    /\ result_set' = <<>>
    /\ searches' = 0
    /\ unlocked' = <<>>
    /\ outcome' = NoOutcome
    /\ UNCHANGED <<obj, base_dn, search_scope, request, formatterVars>>

----------------------------------------------------------------------------
(* The session *)

\* The state before the constructor runs.
SessionIdle ==
    /\ obj = "unbuilt"
    /\ base_dn = Unset
    /\ search_scope = Unset
    /\ pc = "idle"
    /\ caller = [op |-> "none", arg |-> ""]
    /\ directory = NoScript
    /\ request = [search_base |-> Unset, search_filter |-> "", search_scope |-> Unset,
                  paged_size |-> PAGE_SIZE]
    /\ response = <<>>
    /\ cookie = FALSE
    /\ pos = 0
    /\ result_set = <<>>
    /\ searches = 0
    /\ unlocked = <<>>
    /\ outcome = NoOutcome

Init ==
    /\ SessionIdle
    /\ raw = PyNone
    /\ decoded = NoOutcome

\* The guards come first: the inputs of a call are drawn only where the call
\* can be made.
Next ==
    \/ /\ obj = "unbuilt"
       /\ \E method \in Methods, base \in Bases, bindOk \in BOOLEAN :
            Construct(method, base, bindOk)
    \/ /\ Ready
       /\ \E ldapfilter \in Filters, script \in Scripts : Query(ldapfilter, script)
    \/ /\ Ready
       /\ \E sid \in Sids, script \in Scripts : ResolveSid(sid, script)
    \/ /\ Ready
       /\ \E guid \in Guids, script \in Scripts : ResolveGuid(guid, script)
    \/ /\ Ready
       /\ \E username \in Usernames, script \in Scripts, u \in UnlockResults :
            Unlock(username, script, u)
    \/ FetchPage
    \/ NextEntry
    \/ SearchFails
    \/ QueryReturn
    \/ Collect

Spec == Init /\ [][Next]_vars

----------------------------------------------------------------------------
(* format_userAccountControl *)

\* the longest text handed to format_userAccountControl
MaxTextLen == 3
\* the largest integer handed to format_userAccountControl
MaxInt == 12
\* the longest data segment of a DNS record blob
MaxData == 3

PyInt(n) == [t |-> "int", v |-> n]
PyText(chars) == [t |-> "text", v |-> chars]
PyBytes(bytes) == [t |-> "bytes", v |-> bytes]

\* ldap_utils.USER_ACCOUNT_CONTROL, its first entries in definition order.
USER_ACCOUNT_CONTROL ==
    << [k |-> "SCRIPT", v |-> 1],
       [k |-> "ACCOUNTDISABLE", v |-> 2],
       [k |-> "HOMEDIR_REQUIRED", v |-> 8] >>

\* Python's a & b for a >= 0: b is read in two's complement, which is what
\* floored \div and % give.
RECURSIVE BitAnd(_, _)
BitAnd(a, b) ==
    IF a = 0 THEN 0
    ELSE (a % 2) * (b % 2) + 2 * BitAnd(a \div 2, b \div 2)

DecimalDigits == <<"0", "1", "2", "3", "4", "5", "6", "7", "8", "9">>
IsDigit(c) == \E i \in DOMAIN DecimalDigits : DecimalDigits[i] = c
DigitValue(c) == (CHOOSE i \in DOMAIN DecimalDigits : DecimalDigits[i] = c) - 1

RECURSIVE Strip(_)
Strip(chars) ==
    IF chars = <<>> THEN chars
    ELSE IF Head(chars) = " " THEN Strip(Tail(chars))
    ELSE IF chars[Len(chars)] = " " THEN Strip(SubSeq(chars, 1, Len(chars) - 1))
    ELSE chars

RECURSIVE DecimalValue(_, _)
DecimalValue(chars, acc) ==
    IF chars = <<>> THEN acc
    ELSE DecimalValue(Tail(chars), 10 * acc + DigitValue(Head(chars)))

\* int(raw_value), line 21: an int is itself; a text is stripped of blanks,
\* may open with a sign, and is then one or more decimal digits, else a
\* ValueError; None is a TypeError.
int_conv(raw_value) ==
    IF raw_value.t = "int" THEN [exc |-> "", val |-> raw_value.v]
    ELSE IF raw_value.t = "text"
    THEN LET body == Strip(raw_value.v)
             signed == body # <<>> /\ Head(body) \in {"+", "-"}
             digits == IF signed THEN Tail(body) ELSE body
         IN  IF digits # <<>> /\ \A i \in DOMAIN digits : IsDigit(digits[i])
             THEN [exc |-> "",
                   val |-> IF signed /\ Head(body) = "-"
                           THEN 0 - DecimalValue(digits, 0)
                           ELSE DecimalValue(digits, 0)]
             ELSE [exc |-> "ValueError", val |-> 0]
    ELSE [exc |-> "TypeError", val |-> 0]

\* " | ".join(result)
RECURSIVE JoinBar(_)
JoinBar(names) ==
    IF names = <<>> THEN ""
    ELSE IF Len(names) = 1 THEN names[1]
    ELSE (names[1] \o " | ") \o JoinBar(Tail(names))

\* Lines 22-25: the loop over USER_ACCOUNT_CONTROL.items().
RECURSIVE uac_loop(_, _, _)
uac_loop(items, val, result) ==
    IF items = <<>> THEN result
    ELSE uac_loop(Tail(items), val,
                  IF BitAnd(Head(items).v, val) # 0
                  THEN Append(result, Head(items).k)
                  ELSE result)

\* format_userAccountControl without the handlers of lines 27-30.
format_userAccountControl_without_handlers(raw_value) ==
    LET conv == int_conv(raw_value)
    IN  IF conv.exc = ""
        THEN Returned(PyStr(JoinBar(uac_loop(USER_ACCOUNT_CONTROL, conv.val, <<>>))))
        ELSE Raised(conv.exc)

\* Lines 19-31. Both handlers pass, and line 31 returns raw_value.
format_userAccountControl(raw_value) ==
    LET conv == int_conv(raw_value)
    IN  IF conv.exc = ""
        THEN Returned(PyStr(JoinBar(uac_loop(USER_ACCOUNT_CONTROL, conv.val, <<>>))))
        ELSE Returned(raw_value)

TextAlphabet == {"1", "3", "-", " ", "x"}

RawAccountControls ==
    {PyInt(n) : n \in (0 - 2) .. MaxInt}
    \cup {PyText(chars) : chars \in SeqsUpTo(TextAlphabet, MaxTextLen)}
    \cup {PyNone}

ApplyAccountControl ==
    /\ decoded = NoOutcome
    /\ raw \in RawAccountControls
    /\ decoded' = format_userAccountControl(raw)
    /\ UNCHANGED <<sessionVars, raw>>

InitAccountControl ==
    /\ SessionIdle
    /\ raw \in RawAccountControls
    /\ decoded = NoOutcome

NextAccountControl == ApplyAccountControl

SpecAccountControl == InitAccountControl /\ [][NextAccountControl]_vars

----------------------------------------------------------------------------
(* format_dnsrecord *)

\* ldap_utils.DNS_TYPES, some of its entries in definition order.
DNS_TYPES ==
    << [k |-> "ZERO", v |-> 0],
       [k |-> "A", v |-> 1],
       [k |-> "NS", v |-> 2],
       [k |-> "CNAME", v |-> 5] >>

\* raw_value[i:j] of Python: the bounds are clipped to the value.
Slice(bytes, i, j) == SubSeq(bytes, i + 1, Min(j, Len(bytes)))

\* unpack("HH", databytes), line 36: two unsigned 16-bit integers, low byte
\* first (the byte order of the hosts the program runs on); a struct.error
\* unless databytes is 4 bytes long.
unpack_HH(databytes) ==
    IF Len(databytes) # 4 THEN [exc |-> "struct.error", datalen |-> 0, datatype |-> 0]
    ELSE [exc |-> "",
          datalen |-> databytes[1] + 256 * databytes[2],
          datatype |-> databytes[3] + 256 * databytes[4]]

\* inet_ntoa(data), line 41: an OSError unless data is 4 bytes long.
inet_ntoa(data) ==
    IF Len(data) # 4 THEN [exc |-> "OSError", text |-> ""]
    ELSE [exc |-> "",
          text |-> ToString(data[1]) \o "." \o ToString(data[2]) \o "."
                     \o ToString(data[3]) \o "." \o ToString(data[4])]

Backslash == 92

\* data.decode('unicode-escape'), line 44, on the bytes of DnsAlphabet, as a
\* sequence of code points: a byte other than the backslash is its own code
\* point; \n is a line feed and \\ a backslash; a backslash before another
\* byte stays, with that byte; a backslash that ends the data is a
\* UnicodeDecodeError.
RECURSIVE unicode_escape(_)
unicode_escape(data) ==
    IF data = <<>> THEN [exc |-> "", points |-> <<>>]
    ELSE IF Head(data) # Backslash
    THEN LET rest == unicode_escape(Tail(data))
         IN  [exc |-> rest.exc, points |-> <<Head(data)>> \o rest.points]
    ELSE IF Len(data) = 1 THEN [exc |-> "UnicodeDecodeError", points |-> <<>>]
    ELSE LET rest == unicode_escape(Tail(Tail(data)))
             esc == data[2]
             here == IF esc = 110 THEN <<10>>
                     ELSE IF esc = Backslash THEN <<Backslash>>
                     ELSE <<Backslash, esc>>
         IN  [exc |-> rest.exc, points |-> here \o rest.points]

\* The characters line 45 can keep, of those unicode_escape gives here.
Chr(point) ==
    IF point = 9 THEN "\t"
    ELSE IF point = 65 THEN "A"
    ELSE IF point = Backslash THEN "\\"
    ELSE IF point = 110 THEN "n"
    ELSE "?"

\* Line 45: ''.join([c for c in data if ord(c) > 31 or ord(c) == 9])
RECURSIVE printable(_)
printable(points) ==
    IF points = <<>> THEN ""
    ELSE IF Head(points) > 31 \/ Head(points) = 9
    THEN Chr(Head(points)) \o printable(Tail(points))
    ELSE printable(Tail(points))

\* Lines 38-46: the loop over DNS_TYPES.items(); falling off its end, the
\* function returns None.
RECURSIVE dns_loop(_, _, _)
dns_loop(items, datatype, data) ==
    IF items = <<>> THEN Returned(PyNone)
    ELSE IF Head(items).v # datatype THEN dns_loop(Tail(items), datatype, data)
    ELSE IF Head(items).k = "A"
    THEN LET target == inet_ntoa(data)
         IN  IF target.exc # "" THEN Raised(target.exc)
             ELSE Returned(PyStr("A " \o target.text))
    ELSE LET text == unicode_escape(data)
         IN  IF text.exc # "" THEN Raised(text.exc)
             ELSE Returned(PyStr((Head(items).k \o " ") \o printable(text.points)))

\* Lines 34-46.
format_dnsrecord(raw_value) ==
    LET header == unpack_HH(Slice(raw_value.v, 0, 4))
    IN  IF header.exc # "" THEN Raised(header.exc)
        ELSE dns_loop(DNS_TYPES, header.datatype,
                      Slice(raw_value.v, 24, 24 + header.datalen))

\* NUL, tab, "A", backslash, "n"
DnsAlphabet == {0, 9, 65, Backslash, 110}

\* the record types of the blobs: A, NS, CNAME, and 300, which no entry of
\* DNS_TYPES has
BlobTypes == {1, 2, 5, 300}

Zeros(n) == [i \in 1 .. n |-> 0]

\* The blobs: a header, then nothing more or the 20 bytes up to offset 24 and
\* a data segment, whose length need not be the datalen of the header; and
\* one blob shorter than a header.
RawDnsRecords ==
    {PyBytes(<<datalen, 0, datatype % 256, datatype \div 256>> \o Zeros(20) \o data) :
        datalen \in 0 .. MaxData + 1, datatype \in BlobTypes,
        data \in SeqsUpTo(DnsAlphabet, MaxData + 1)}
    \cup {PyBytes(<<datalen, 0, datatype % 256, datatype \div 256>>) :
        datalen \in 0 .. MaxData + 1, datatype \in BlobTypes}
    \cup {PyBytes(<<4, 0>>)}

ApplyDnsRecord ==
    /\ decoded = NoOutcome
    /\ raw \in RawDnsRecords
    /\ decoded' = format_dnsrecord(raw)
    /\ UNCHANGED <<sessionVars, raw>>

InitDnsRecord ==
    /\ SessionIdle
    /\ raw \in RawDnsRecords
    /\ decoded = NoOutcome

NextDnsRecord == ApplyDnsRecord

SpecDnsRecord == InitDnsRecord /\ [][NextDnsRecord]_vars

----------------------------------------------------------------------------
(* Properties *)

HasDn(entry) == "dn" \in DOMAIN entry

\* The entries of the answer that carry a dn, in the order they arrive.
WithDn(entries) == SelectSeq(entries, HasDn)

\* rec is the record of entry: the attributes of the entry, and the dn of
\* its envelope under the key "dn".
IsRecordOf(rec, entry) ==
    /\ DOMAIN rec = DOMAIN entry.attributes \cup {"dn"}
    /\ rec["dn"] = entry.dn
    /\ \A k \in DOMAIN entry.attributes \ {"dn"} : rec[k] = entry.attributes[k]

IsInvalidSidError(o) ==
    o.kind = "raise" /\ o.exc = "ActiveDirectoryLdapInvalidSID"
IsInvalidGuidError(o) ==
    o.kind = "raise" /\ o.exc = "ActiveDirectoryLdapInvalidGUID"
IsConnectionError(o) ==
    o.kind = "raise" /\ o.exc = "ActiveDirectoryLdapException"

WellKnownCall == caller.op = "resolve_sid" /\ caller.arg \in DOMAIN WELL_KNOWN_SIDs
MalformedSidCall ==
    /\ caller.op = "resolve_sid"
    /\ caller.arg \notin DOMAIN WELL_KNOWN_SIDs
    /\ ~validate_sid(caller.arg)
ValidSidCall ==
    /\ caller.op = "resolve_sid"
    /\ caller.arg \notin DOMAIN WELL_KNOWN_SIDs
    /\ validate_sid(caller.arg)
ValidGuidCall == caller.op = "resolve_guid" /\ validate_guid(caller.arg)
MalformedGuidCall == caller.op = "resolve_guid" /\ ~validate_guid(caller.arg)

\* C1: resolve_sid of a sid of the well-known table issues no paged search
\* and returns the value the table has for that sid.
C1_WellKnownSidBypassesDirectory ==
    WellKnownCall =>
        /\ searches = 0
        /\ pc = "done"
        /\ outcome.kind = "return"
        /\ outcome.val.t = "str"
        /\ outcome.val.v = WELL_KNOWN_SIDs[caller.arg]

\* The call has returned although the directory would have answered with
\* entries, and with an error after them.
C1_Witness ==
    /\ WellKnownCall /\ pc = "done"
    /\ caller.arg = "S-1-5-18" /\ outcome.val.v = "Local System"
    /\ Len(directory.entries) > 0 /\ directory.fails

\* C2: resolve_sid of a sid that is not in the well-known table and that
\* validate_sid rejects issues no paged search and fails with
\* ActiveDirectoryLdapInvalidSID.
C2_MalformedSidFailsWithoutQuery ==
    MalformedSidCall =>
        /\ searches = 0
        /\ pc = "done"
        /\ IsInvalidSidError(outcome)

C2_Witness ==
    /\ MalformedSidCall /\ pc = "done"
    /\ caller.arg = "not-a-sid"
    /\ Len(WithDn(directory.entries)) > 0

\* C3, as claimed: an unlock that finds no record or several fails with
\* ActiveDirectoryLdapException and does not invoke the unlock operation,
\* which is invoked only on the dn of a unique record.
C3_UnlockRequiresUniqueMatch ==
    (caller.op = "unlock" /\ pc = "done" /\ ~directory.fails) =>
        IF Len(WithDn(directory.entries)) # 1
        THEN IsConnectionError(outcome) /\ unlocked = <<>>
        ELSE unlocked \in {<<>>, <<WithDn(directory.entries)[1].dn>>}

\* C4, as claimed: on a unique match unlock returns the boolean the unlock
\* operation answered, and False when it answered a string.
C4_UnlockNormalizesResult ==
    (/\ caller.op = "unlock" /\ pc = "done" /\ ~directory.fails
     /\ Len(WithDn(directory.entries)) = 1) =>
        /\ outcome.kind = "return"
        /\ outcome.val.t = "bool"
        /\ outcome.val.v = (directory.unlock.t = "bool" /\ directory.unlock.v)

\* C5: a query whose search completes returns one record per entry that has
\* a dn, in the order the entries arrive over all pages; each record has the
\* attributes of its entry and, under "dn", the dn of the envelope.
C5_QueryReturnsEntriesWithDnInOrder ==
    (caller.op = "query" /\ pc = "done" /\ ~directory.fails) =>
        /\ outcome.kind = "return"
        /\ outcome.val.t = "list"
        /\ LET records == outcome.val.v
               arrived == WithDn(directory.entries)
           IN  /\ Len(records) = Len(arrived)
               /\ \A i \in 1 .. Len(arrived) : IsRecordOf(records[i], arrived[i])

\* The answer took more than one page, holds a search reference, and an
\* entry whose attributes hold a "dn" of their own after the first page.
C5_Witness ==
    /\ caller.op = "query" /\ pc = "done" /\ ~directory.fails
    /\ Len(directory.entries) > PAGE_SIZE
    /\ \E i \in 1 .. Len(directory.entries) : ~HasDn(directory.entries[i])
    /\ directory.entries[Len(directory.entries)] = EntryB
    /\ Len(outcome.val.v) >= 2

\* C6: a query issues one paged search; when the search ends with an
\* LDAPOperationResult, wherever that is, the query raises
\* ActiveDirectoryLdapException and returns nothing of what it gathered.
C6_FailedSearchRaisesAndIsNotRetried ==
    caller.op = "query" =>
        /\ searches = 1
        /\ (pc = "done" /\ directory.fails) =>
              /\ IsConnectionError(outcome)
              /\ outcome.val = PyNone

\* The error came in the second page, after records were gathered.
C6_Witness ==
    /\ caller.op = "query" /\ pc = "done" /\ directory.fails
    /\ directory.failAt > PAGE_SIZE
    /\ Len(result_set) >= 2
    /\ IsConnectionError(outcome)

\* C7, as claimed: with Kerberos or NTLM, a constructor whose bind fails
\* raises ActiveDirectoryLdapException and leaves base_dn and search_scope
\* unset.
C7_BindFailureRaisesConnectionError ==
    (caller.op = "__init__" /\ caller.arg \in {"Kerberos", "NTLM"} /\ obj = "failed") =>
        /\ IsConnectionError(outcome)
        /\ base_dn = Unset
        /\ search_scope = Unset

\* The names of the flags of USER_ACCOUNT_CONTROL that v has a bit of, in
\* the order of the table.
FlagNames(v) ==
    LET set == SelectSeq(USER_ACCOUNT_CONTROL, LAMBDA item : BitAnd(item.v, v) # 0)
    IN  [i \in 1 .. Len(set) |-> set[i].k]

\* C8: format_userAccountControl never raises; for a raw value that int()
\* converts to v it returns the names of the flags n with T[n] & v != 0,
\* in the order of the table, joined by " | "; any other raw value it
\* returns unchanged.
C8_AccountControlDecodesOrPassesThrough ==
    decoded # NoOutcome =>
        /\ decoded.kind = "return"
        /\ IF int_conv(raw).exc = ""
           THEN /\ decoded.val.t = "str"
                /\ decoded.val.v = JoinBar(FlagNames(int_conv(raw).val))
           ELSE decoded.val = raw

\* The text "13" decodes to the first and the third flag.
C8_Witness ==
    /\ raw = PyText(<<"1", "3">>)
    /\ decoded.kind = "return"
    /\ decoded.val.t = "str"
    /\ decoded.val.v = "SCRIPT | HOMEDIR_REQUIRED"

TypeMatches(bytes) ==
    \E i \in DOMAIN DNS_TYPES : DNS_TYPES[i].v = bytes[3] + 256 * bytes[4]

\* C9, as claimed: on a raw value of 4 bytes or more format_dnsrecord does
\* not raise; it returns a string when the datatype is one of DNS_TYPES and
\* None exactly when it is not.
C9_DnsRecordNeverRaises ==
    (decoded # NoOutcome /\ Len(raw.v) >= 4) =>
        /\ decoded.kind = "return"
        /\ decoded.val.t = (IF TypeMatches(raw.v) THEN "str" ELSE "none")

\* C10: resolve_sid of a valid sid outside the well-known table, and
\* resolve_guid of a valid guid, issue one paged search for that identifier;
\* with no record they fail with ActiveDirectoryLdapInvalidSID and
\* ActiveDirectoryLdapInvalidGUID, with one record or more they return all
\* the records of the query. resolve_guid of an invalid guid fails with
\* ActiveDirectoryLdapInvalidGUID and issues no search.
C10_ResolveQueriesOnceAndReturnsAll ==
    /\ (ValidSidCall \/ ValidGuidCall) =>
          /\ searches = 1
          /\ request.search_filter =
                (IF ValidSidCall THEN "(&(ObjectSid=" ELSE "(&(ObjectGUID=")
                    \o caller.arg \o "))"
          /\ (pc = "done" /\ ~directory.fails) =>
                IF WithDn(directory.entries) = <<>>
                THEN IF ValidSidCall THEN IsInvalidSidError(outcome)
                     ELSE IsInvalidGuidError(outcome)
                ELSE /\ outcome.kind = "return"
                     /\ outcome.val.t = "list"
                     /\ outcome.val.v = result_set
                     /\ Len(outcome.val.v) = Len(WithDn(directory.entries))
    /\ MalformedGuidCall =>
          /\ searches = 0
          /\ pc = "done"
          /\ IsInvalidGuidError(outcome)

\* resolve_guid has returned more than one record.
C10_Witness ==
    /\ ValidGuidCall /\ pc = "done" /\ ~directory.fails
    /\ outcome.kind = "return"
    /\ Len(outcome.val.v) >= 2

====
